---- MODULE Spec2Model ----
(***************************************************************************)
(* Blogicum: the visibility, authorization and listing logic of the blog   *)
(* application (blogicum/blog/views.py, models.py, forms.py, admin.py).    *)
(* The entity store (Category, Post, Comment rows), the wall clock and the *)
(* last request/response pair are the state; every view is one action.     *)
(***************************************************************************)
EXTENDS Integers, Sequences, FiniteSets, TLC

\* ---------------------------------------------------------------- bounds
MaxTime == 2
MaxPosts == 2
MaxComments == 2

\* ------------------------------------------------------------- constants
\* blog/constants.py is imported by views.py; the page size is scaled down
\* so that a second page exists within MaxPosts.
POSTS_PER_PAGE == 1

USERS == {"alice", "bob"}
AnonymousUser == "AnonymousUser"
Viewers == USERS \cup {AnonymousUser}
Usernames == USERS \cup {"ghost"}
CategorySlugs == {"travel", "food"}
NULL == "NULL"
Texts == {"a", "b"}
Times == 0..MaxTime
PostIds == 1..MaxPosts
CommentIds == 1..MaxComments
Methods == {"GET", "POST"}

\* The raw ?page= query parameter: absent, a string that int() rejects,
\* or a string that int() parses to n.
NoPage == [kind |-> "absent", n |-> 0]
PageParams ==
    {NoPage, [kind |-> "text", n |-> 0]}
        \cup {[kind |-> "int", n |-> k] : k \in 0..(MaxPosts + 1)}

VARIABLES
    now,            \* the wall clock (timezone.now())
    import_time,    \* timezone.now() when blog/views.py was imported
    categories,     \* Category rows: slug -> [is_published]
    posts,          \* Post rows: id -> [author, is_published, pub_date, category]
    next_post_id,   \* autoincrement primary key of Post
    comments,       \* Comment rows: id -> [post, author, text, created_at]
    next_comment_id,\* autoincrement primary key of Comment
    request,        \* the last request (view, method, user, route kwargs)
    response        \* its response

store == <<categories, posts, next_post_id, comments, next_comment_id>>
vars == <<now, import_time, categories, posts, next_post_id, comments,
          next_comment_id, request, response>>

\* ------------------------------------------------------------- responses
NoRequest ==
    [view |-> "none", method |-> "GET", user |-> AnonymousUser, post_id |-> 0,
     comment_id |-> 0, slug |-> "", username |-> "", page |-> NoPage]

Req(view, method, user, post_id, comment_id, slug, username, page) ==
    [view |-> view, method |-> method, user |-> user, post_id |-> post_id,
     comment_id |-> comment_id, slug |-> slug, username |-> username,
     page |-> page]

NoResponse ==
    [status |-> "none", location |-> <<>>, object_list |-> <<>>,
     comment_count |-> <<>>, number |-> 0, comments |-> <<>>]

Http404 == [NoResponse EXCEPT !.status = "NotFound"]

redirect(location) ==
    [NoResponse EXCEPT !.status = "Redirect", !.location = location]

redirect_to_login == redirect(<<"login">>)

render(object_list, comment_count, number) ==
    [NoResponse EXCEPT !.status = "OK", !.object_list = object_list,
                       !.comment_count = comment_count, !.number = number]

\* ---------------------------------------------------------------- models
Range(s) == {s[i] : i \in DOMAIN s}

Remove(f, ks) == [k \in DOMAIN f \ ks |-> f[k]]

Insert(f, k, v) == [x \in DOMAIN f \cup {k} |-> IF x = k THEN v ELSE f[x]]

\* Comment.post with related_name='comments'
post_comments(post_id) == {c \in DOMAIN comments : comments[c].post = post_id}

\* Count('comments')
comment_count_of(post_id) == Cardinality(post_comments(post_id))

\* category__is_published=True: an inner join on Category, so a post whose
\* category is NULL has no joined row and does not match.
category__is_published(p) ==
    /\ posts[p].category \in DOMAIN categories
    /\ categories[posts[p].category].is_published

\* All orders order_by may return for the ids in S: rows with equal keys
\* come in an order the database is free to choose.
Orderings(S) ==
    {s \in [1..Cardinality(S) -> S] :
        \A i, j \in DOMAIN s : i # j => s[i] # s[j]}

\* order_by(*Post._meta.ordering), ['-pub_date']
order_by_pub_date_desc(S) ==
    {s \in Orderings(S) :
        \A i, j \in DOMAIN s :
            i < j => posts[s[i]].pub_date >= posts[s[j]].pub_date}

\* order_by('created_at')
order_by_created_at(S) ==
    {s \in Orderings(S) :
        \A i, j \in DOMAIN s :
            i < j => comments[s[i]].created_at <= comments[s[j]].created_at}

\* Comment.Meta.ordering, ['-created_at']
order_by_created_at_desc(S) ==
    {s \in Orderings(S) :
        \A i, j \in DOMAIN s :
            i < j => comments[s[i]].created_at >= comments[s[j]].created_at}

published_filter(ids, t) ==
    {p \in ids : /\ posts[p].is_published
                 /\ posts[p].pub_date <= t
                 /\ category__is_published(p)}

\* get_post with the filter_published argument ignored
get_post_ids_always_filtered(ids, filter_published, t) ==
    published_filter(ids, t)

\* get_post(posts, filter_published): the ids kept, before ordering; t is
\* the value timezone.now() had when get_post was called.
get_post_ids(ids, filter_published, t) ==
    IF filter_published THEN published_filter(ids, t) ELSE ids

\* get_post(...): the ordered querysets it may evaluate to
get_post(ids, filter_published, t) ==
    order_by_pub_date_desc(get_post_ids(ids, filter_published, t))

annotate(object_list) ==
    [p \in Range(object_list) |-> comment_count_of(p)]

\* ------------------------------------------------------------ pagination
num_pages(count) ==
    IF count = 0 THEN 1
    ELSE (count + POSTS_PER_PAGE - 1) \div POSTS_PER_PAGE

\* ListView (paginate_by): page = GET.get('page') or 1; int(page) or 404;
\* paginator.page(number) raises InvalidPage -> 404 outside 1..num_pages.
\* 0 stands for the 404.
list_view_page(page, count) ==
    IF page.kind = "absent" THEN 1
    ELSE IF page.kind = "text" THEN 0
    ELSE IF page.n < 1 \/ page.n > num_pages(count) THEN 0
    ELSE page.n

list_response(object_list, page) ==
    IF list_view_page(page, Len(object_list)) = 0 THEN Http404
    ELSE render(object_list, annotate(object_list),
                list_view_page(page, Len(object_list)))

\* One request is handled at a time: a view runs when no response is pending.
idle == response = NoResponse

\* ------------------------------------------------------------------ init
Init ==
    /\ now = 0
    /\ import_time = 0
    /\ categories = [slug \in CategorySlugs |-> [is_published |-> TRUE]]
    /\ posts = <<>>
    /\ next_post_id = 1
    /\ comments = <<>>
    /\ next_comment_id = 1
    /\ request = NoRequest
    /\ response = NoResponse

\* ----------------------------------------------------------------- clock
Tick ==
    /\ idle
    /\ now < MaxTime
    /\ now' = now + 1
    /\ request' = NoRequest
    /\ response' = NoResponse
    /\ UNCHANGED <<import_time, store>>

\* ------------------------------------------------------------ list views
\* IndexView: queryset = get_post() is a class attribute, so get_post ran,
\* and read timezone.now(), when the module was imported.
IndexView(user, page) ==
    /\ idle
    /\ request' = Req("index", "GET", user, 0, 0, "", "", page)
    /\ \E object_list \in get_post(DOMAIN posts, TRUE, import_time) :
          response' = list_response(object_list, page)
    /\ UNCHANGED <<now, import_time, store>>


\* get_category without is_published=True
get_category_any_state(slug) == slug \in DOMAIN categories

\* CategoryPostsView.get_category / get_queryset
get_category_found(slug) ==
    /\ slug \in DOMAIN categories
    /\ categories[slug].is_published

category_posts(slug) == {p \in DOMAIN posts : posts[p].category = slug}

CategoryPostsView(user, slug, page) ==
    /\ idle
    /\ request' = Req("category_posts", "GET", user, 0, 0, slug, "", page)
    /\ IF ~get_category_found(slug)
       THEN response' = Http404
       ELSE \E object_list \in get_post(category_posts(slug), TRUE, now) :
               response' = list_response(object_list, page)
    /\ UNCHANGED <<now, import_time, store>>

\* ProfileView.get_author / get_queryset
author_posts(username) == {p \in DOMAIN posts : posts[p].author = username}

ProfileView(user, username, page) ==
    /\ idle
    /\ request' = Req("profile", "GET", user, 0, 0, "", username, page)
    /\ IF username \notin USERS
       THEN response' = Http404
       ELSE \E object_list \in
                 get_post(author_posts(username), user # username, now) :
               response' = list_response(object_list, page)
    /\ UNCHANGED <<now, import_time, store>>

\* ----------------------------------------------------------- post detail
\* PostDetailView.get_object: 0 stands for Http404
detail_get_object(user, post_id) ==
    IF post_id \notin DOMAIN posts THEN 0
    ELSE IF user # posts[post_id].author
         THEN (IF post_id \in get_post_ids(DOMAIN posts, TRUE, now)
               THEN post_id ELSE 0)
         ELSE post_id

\* the comments in Comment.Meta.ordering, ['-created_at']
detail_comments_meta_ordering(post_id) ==
    order_by_created_at_desc(post_comments(post_id))

\* PostDetailView.get_context_data: comments.all().order_by('created_at')
detail_comments(post_id) == order_by_created_at(post_comments(post_id))

PostDetailView(user, post_id) ==
    /\ idle
    /\ request' = Req("post_detail", "GET", user, post_id, 0, "", "", NoPage)
    /\ IF detail_get_object(user, post_id) = 0
       THEN response' = Http404
       ELSE \E cs \in detail_comments(post_id) :
               response' = [render(<<post_id>>, annotate(<<post_id>>), 0)
                              EXCEPT !.comments = cs]
    /\ UNCHANGED <<now, import_time, store>>

\* ----------------------------------------------------------------- forms
\* PostForm.category: ModelChoiceField over Category.objects.filter(
\* is_published=True), required.
PostForm_is_valid(category) ==
    /\ category \in DOMAIN categories
    /\ categories[category].is_published

form_page == render(<<>>, <<>>, 0)

\* ------------------------------------------------------- mutating: posts
\* LoginRequiredMixin
is_authenticated(user) == user \in USERS

CreatePostView(user, category, pub_date) ==
    /\ idle
    /\ request' = Req("create_post", "POST", user, 0, 0, "", "", NoPage)
    /\ IF ~is_authenticated(user)
       THEN /\ response' = redirect_to_login
            /\ UNCHANGED store
       ELSE IF ~PostForm_is_valid(category)
       THEN /\ response' = form_page
            /\ UNCHANGED store
       ELSE /\ next_post_id <= MaxPosts
            /\ posts' = Insert(posts, next_post_id,
                               [author |-> user, is_published |-> TRUE,
                                pub_date |-> pub_date, category |-> category])
            /\ next_post_id' = next_post_id + 1
            /\ response' = redirect(<<"profile", user>>)
            /\ UNCHANGED <<categories, comments, next_comment_id>>
    /\ UNCHANGED <<now, import_time>>

\* PostAuthorRequiredMixin.test_func
post_test_func(user, post_id) == user = posts[post_id].author

\* PostAuthorRequiredMixin.handle_no_permission
post_handle_no_permission(post_id) == redirect(<<"post_detail", post_id>>)

EditPostView(user, method, post_id, category, pub_date) ==
    /\ idle
    /\ request' = Req("edit_post", method, user, post_id, 0, "", "", NoPage)
    /\ IF post_id \notin DOMAIN posts
       THEN /\ response' = Http404
            /\ UNCHANGED store
       ELSE IF ~post_test_func(user, post_id)
       THEN /\ response' = post_handle_no_permission(post_id)
            /\ UNCHANGED store
       ELSE IF method = "GET" \/ ~PostForm_is_valid(category)
       THEN /\ response' = form_page
            /\ UNCHANGED store
       ELSE /\ posts' = [posts EXCEPT ![post_id].category = category,
                                      ![post_id].pub_date = pub_date]
            /\ response' = redirect(<<"post_detail", post_id>>)
            /\ UNCHANGED <<categories, next_post_id, comments,
                           next_comment_id>>
    /\ UNCHANGED <<now, import_time>>

\* Comment.post with on_delete=DO_NOTHING
delete_without_cascade(post_id) == comments

\* Comment.post is on_delete=CASCADE: the Comment rows left once the post
\* is deleted.
cascade_delete(post_id) == Remove(comments, post_comments(post_id))

\* DeleteView.form_valid: object.delete()
DeletePostView(user, method, post_id) ==
    /\ idle
    /\ request' = Req("delete_post", method, user, post_id, 0, "", "", NoPage)
    /\ IF post_id \notin DOMAIN posts
       THEN /\ response' = Http404
            /\ UNCHANGED store
       ELSE IF ~post_test_func(user, post_id)
       THEN /\ response' = post_handle_no_permission(post_id)
            /\ UNCHANGED store
       ELSE IF method = "GET"
       THEN /\ response' = render(<<post_id>>, annotate(<<post_id>>), 0)
            /\ UNCHANGED store
       ELSE /\ posts' = Remove(posts, {post_id})
            /\ comments' = cascade_delete(post_id)
            /\ response' = redirect(<<"index">>)
            /\ UNCHANGED <<categories, next_post_id, next_comment_id>>
    /\ UNCHANGED <<now, import_time>>

\* ---------------------------------------------------- mutating: comments
\* AddCommentView.form_valid. created_at is auto_now_add; the clock has
\* microsecond resolution and saving a row takes longer than that, so the
\* clock has moved on when the request ends.
AddCommentView(user, post_id, text) ==
    /\ idle
    /\ request' = Req("add_comment", "POST", user, post_id, 0, "", "", NoPage)
    /\ IF ~is_authenticated(user)
       THEN /\ response' = redirect_to_login
            /\ UNCHANGED <<now, store>>
       ELSE IF post_id \notin DOMAIN posts
       THEN /\ response' = Http404
            /\ UNCHANGED <<now, store>>
       ELSE /\ next_comment_id <= MaxComments
            /\ now < MaxTime
            /\ comments' = Insert(comments, next_comment_id,
                                  [post |-> post_id, author |-> user,
                                   text |-> text, created_at |-> now])
            /\ next_comment_id' = next_comment_id + 1
            /\ now' = now + 1
            /\ response' = redirect(<<"post_detail", post_id>>)
            /\ UNCHANGED <<categories, posts, next_post_id>>
    /\ UNCHANGED import_time

\* a test_func that only asks for a logged-in user
comment_test_func_any_user(user, comment_id) == user \in USERS

\* CommentAuthorRequiredMixin.test_func
comment_test_func(user, comment_id) == user = comments[comment_id].author

\* CommentAuthorRequiredMixin.handle_no_permission
comment_handle_no_permission(comment_id) ==
    redirect(<<"post_detail", comments[comment_id].post>>)

\* EditCommentView.get_success_url: kwargs.get('post_id')
edit_comment_success_url(post_id, comment_id) == <<"post_detail", post_id>>

\* DeleteCommentView.get_success_url: kwargs[self.pk_url_kwarg], and
\* pk_url_kwarg = 'comment_id'
delete_comment_success_url(post_id, comment_id) == <<"post_detail", comment_id>>

EditCommentView(user, method, post_id, comment_id, text) ==
    /\ idle
    /\ request' = Req("edit_comment", method, user, post_id, comment_id,
                      "", "", NoPage)
    /\ IF comment_id \notin DOMAIN comments
       THEN /\ response' = Http404
            /\ UNCHANGED store
       ELSE IF ~comment_test_func(user, comment_id)
       THEN /\ response' = comment_handle_no_permission(comment_id)
            /\ UNCHANGED store
       ELSE IF method = "GET"
       THEN /\ response' = form_page
            /\ UNCHANGED store
       ELSE /\ comments' = [comments EXCEPT ![comment_id].text = text]
            /\ response' = redirect(edit_comment_success_url(post_id,
                                                             comment_id))
            /\ UNCHANGED <<categories, posts, next_post_id, next_comment_id>>
    /\ UNCHANGED <<now, import_time>>

DeleteCommentView(user, method, post_id, comment_id) ==
    /\ idle
    /\ request' = Req("delete_comment", method, user, post_id, comment_id,
                      "", "", NoPage)
    /\ IF comment_id \notin DOMAIN comments
       THEN /\ response' = Http404
            /\ UNCHANGED store
       ELSE IF ~comment_test_func(user, comment_id)
       THEN /\ response' = comment_handle_no_permission(comment_id)
            /\ UNCHANGED store
       ELSE IF method = "GET"
       THEN /\ response' = form_page
            /\ UNCHANGED store
       ELSE /\ comments' = Remove(comments, {comment_id})
            /\ response' = redirect(delete_comment_success_url(post_id,
                                                               comment_id))
            /\ UNCHANGED <<categories, posts, next_post_id, next_comment_id>>
    /\ UNCHANGED <<now, import_time>>

\* EditProfileView: get_object is request.user; the User row carries
\* nothing the blog views read besides the username, which the form keeps.
EditProfileView(user, method) ==
    /\ idle
    /\ request' = Req("edit_profile", method, user, 0, 0, "", "", NoPage)
    /\ response' = IF ~is_authenticated(user) THEN redirect_to_login
                   ELSE IF method = "GET" THEN form_page
                   ELSE redirect(<<"profile", user>>)
    /\ UNCHANGED <<now, import_time, store>>

\* ----------------------------------------------------------------- admin
\* admin.site.register(Category): the administrator publishes, hides or
\* deletes a category; Post.category is on_delete=SET_NULL.
AdminSetCategoryPublished(slug, value) ==
    /\ idle
    /\ slug \in DOMAIN categories
    /\ categories[slug].is_published # value
    /\ categories' = [categories EXCEPT ![slug].is_published = value]
    /\ request' = NoRequest
    /\ response' = NoResponse
    /\ UNCHANGED <<now, import_time, posts, next_post_id, comments,
                   next_comment_id>>

AdminDeleteCategory(slug) ==
    /\ idle
    /\ slug \in DOMAIN categories
    /\ categories' = Remove(categories, {slug})
    /\ posts' = [p \in DOMAIN posts |->
                    IF posts[p].category = slug
                    THEN [posts[p] EXCEPT !.category = NULL]
                    ELSE posts[p]]
    /\ request' = NoRequest
    /\ response' = NoResponse
    /\ UNCHANGED <<now, import_time, next_post_id, comments, next_comment_id>>

\* PostAdmin: is_published is editable only here (PostForm omits it)
AdminSetPostPublished(post_id, value) ==
    /\ idle
    /\ post_id \in DOMAIN posts
    /\ posts[post_id].is_published # value
    /\ posts' = [posts EXCEPT ![post_id].is_published = value]
    /\ request' = NoRequest
    /\ response' = NoResponse
    /\ UNCHANGED <<now, import_time, categories, next_post_id, comments,
                   next_comment_id>>

\* The response is delivered and the handler's request is over.
SendResponse ==
    /\ ~idle
    /\ request' = NoRequest
    /\ response' = NoResponse
    /\ UNCHANGED <<now, import_time, store>>

\* -------------------------------------------------------- specifications
Reads ==
    \/ \E user \in Viewers, page \in PageParams : IndexView(user, page)
    \/ \E user \in Viewers, slug \in CategorySlugs, page \in PageParams :
          CategoryPostsView(user, slug, page)
    \/ \E user \in Viewers, username \in Usernames, page \in PageParams :
          ProfileView(user, username, page)
    \/ \E user \in Viewers, post_id \in PostIds : PostDetailView(user, post_id)

PostWrites ==
    \/ \E user \in Viewers, category \in CategorySlugs, pub_date \in Times :
          CreatePostView(user, category, pub_date)
    \/ \E user \in Viewers, method \in Methods, post_id \in PostIds,
          category \in CategorySlugs, pub_date \in Times :
          EditPostView(user, method, post_id, category, pub_date)
    \/ \E user \in Viewers, method \in Methods, post_id \in PostIds :
          DeletePostView(user, method, post_id)

CommentWrites ==
    \/ \E user \in Viewers, post_id \in PostIds, text \in Texts :
          AddCommentView(user, post_id, text)
    \/ \E user \in Viewers, method \in Methods, post_id \in PostIds,
          comment_id \in CommentIds, text \in Texts :
          EditCommentView(user, method, post_id, comment_id, text)
    \/ \E user \in Viewers, method \in Methods, post_id \in PostIds,
          comment_id \in CommentIds :
          DeleteCommentView(user, method, post_id, comment_id)

Admin ==
    \/ \E slug \in CategorySlugs, value \in BOOLEAN :
          AdminSetCategoryPublished(slug, value)
    \/ \E slug \in CategorySlugs : AdminDeleteCategory(slug)
    \/ \E post_id \in PostIds, value \in BOOLEAN :
          AdminSetPostPublished(post_id, value)

\* The whole application.
Next ==
    \/ Tick
    \/ Reads
    \/ PostWrites
    \/ CommentWrites
    \/ \E user \in Viewers, method \in Methods : EditProfileView(user, method)
    \/ Admin
    \/ SendResponse

Spec == Init /\ [][Next]_vars

\* The feeds: posts are written, scheduled, hidden and listed; nobody
\* comments and nothing is deleted by its author.
NextFeed ==
    \/ Tick
    \/ Reads
    \/ \E user \in Viewers, category \in CategorySlugs, pub_date \in Times :
          CreatePostView(user, category, pub_date)
    \/ \E user \in Viewers, method \in Methods, post_id \in PostIds,
          category \in CategorySlugs, pub_date \in Times :
          EditPostView(user, method, post_id, category, pub_date)
    \/ Admin
    \/ SendResponse

SpecFeed == Init /\ [][NextFeed]_vars

\* The discussions: every post is written for immediate publication in the
\* first category, and posts and comments are added, edited and deleted.
NextComments ==
    \/ \E user \in Viewers : IndexView(user, NoPage)
    \/ \E user \in Viewers, post_id \in PostIds : PostDetailView(user, post_id)
    \/ \E user \in Viewers : CreatePostView(user, "travel", 0)
    \/ \E user \in Viewers, method \in Methods, post_id \in PostIds,
          category \in CategorySlugs :
          EditPostView(user, method, post_id, category, 0)
    \/ \E user \in Viewers, method \in Methods, post_id \in PostIds :
          DeletePostView(user, method, post_id)
    \/ CommentWrites
    \/ \E user \in Viewers, method \in Methods : EditProfileView(user, method)
    \/ SendResponse

SpecComments == Init /\ [][NextComments]_vars

\* ============================================================ properties
ListViews == {"index", "category_posts", "profile"}

MutatingViews ==
    {"create_post", "edit_post", "delete_post", "add_comment",
     "edit_comment", "delete_comment", "edit_profile"}

\* The visibility predicate for a viewer who is not the author, with a
\* post without category treated as visible.
visible_or_uncategorised(p, t) ==
    /\ posts[p].is_published
    /\ posts[p].pub_date <= t
    /\ \/ posts[p].category = NULL
       \/ categories[posts[p].category].is_published

\* The visibility predicate the listings apply to every viewer.
visible_in_category(p, t) ==
    /\ posts[p].is_published
    /\ posts[p].pub_date <= t
    /\ posts[p].category \in DOMAIN categories
    /\ categories[posts[p].category].is_published

hidden_category(p) ==
    /\ posts[p].category \in DOMAIN categories
    /\ ~categories[posts[p].category].is_published

\* C1: the detail request for an existing post succeeds for its author, and
\* for anyone else exactly when the post is published, its pub_date has
\* passed and its category is absent or published; otherwise NotFound.
C1_DetailVisibility ==
    (request.view = "post_detail" /\ request.post_id \in DOMAIN posts) =>
        /\ response.status \in {"OK", "NotFound"}
        /\ response.status = "OK" <=>
              \/ request.user = posts[request.post_id].author
              \/ visible_or_uncategorised(request.post_id, now)

\* C2: the home feed applies the pub_date gate at the time of the request:
\* a served listing holds every published post of a published category whose
\* pub_date has passed by now, and no post whose pub_date is still ahead.
C2_HomeFeedAtRequestTime ==
    (request.view = "index" /\ response.status = "OK") =>
        \A p \in DOMAIN posts :
            /\ visible_in_category(p, now) =>
                  p \in Range(response.object_list)
            /\ posts[p].pub_date > now =>
                  p \notin Range(response.object_list)

\* C3: an anonymous viewer's mutating request (on an entity that exists)
\* is answered by a redirect to the login page and changes no row.
C3_AnonymousToLogin ==
    [][(/\ idle
        /\ request'.view \in MutatingViews
        /\ request'.user = AnonymousUser
        /\ request'.view \in {"edit_post", "delete_post"} =>
              request'.post_id \in DOMAIN posts
        /\ request'.view \in {"edit_comment", "delete_comment"} =>
              request'.comment_id \in DOMAIN comments)
       => (response' = redirect_to_login /\ store' = store)]_vars

\* C4: a listing whose scope resolves answers every page parameter with a
\* page: the first for an absent, non-numeric or non-positive parameter, the
\* last for one beyond the last page.
scope_resolves ==
    \/ request.view = "index"
    \/ request.view = "category_posts" /\ get_category_found(request.slug)
    \/ request.view = "profile" /\ request.username \in USERS

clamped_page(page, count) ==
    IF page.kind # "int" \/ page.n < 1 THEN 1
    ELSE IF page.n > num_pages(count) THEN num_pages(count)
    ELSE page.n

C4_PageClamped ==
    (request.view \in ListViews /\ scope_resolves) =>
        /\ response.status = "OK"
        /\ response.number =
              clamped_page(request.page, Len(response.object_list))

\* C5: while a category is hidden, none of its posts is in the home feed,
\* its category feed is not served, and its posts are in the profile feed
\* of their author exactly when the viewer is that author.
C5_HiddenCategory ==
    /\ (request.view = "index" /\ response.status = "OK") =>
          \A p \in Range(response.object_list) : ~hidden_category(p)
    /\ (/\ request.view = "category_posts"
        /\ request.slug \in DOMAIN categories
        /\ ~categories[request.slug].is_published) =>
          response.status = "NotFound"
    /\ (request.view = "profile" /\ response.status = "OK") =>
          \A p \in author_posts(request.username) :
              hidden_category(p) =>
                  (p \in Range(response.object_list)
                      <=> request.user = request.username)

C5_Witness ==
    /\ request.view = "profile"
    /\ response.status = "OK"
    /\ request.user = request.username
    /\ \E p \in Range(response.object_list) :
          /\ hidden_category(p)
          /\ posts[p].is_published
          /\ posts[p].pub_date <= now

\* C6: an authenticated viewer who is not the author of the post or comment
\* a request would edit or delete is redirected to the detail page of the
\* owning post and no row changes; an edit or delete request changes rows
\* only when it comes from the author of its target.
target_author(req) ==
    IF req.view \in {"edit_post", "delete_post"}
    THEN (IF req.post_id \in DOMAIN posts
          THEN posts[req.post_id].author ELSE NULL)
    ELSE (IF req.comment_id \in DOMAIN comments
          THEN comments[req.comment_id].author ELSE NULL)

C6_NonAuthorRefused ==
    [][(idle /\ request'.view \in {"edit_post", "delete_post", "edit_comment",
                                   "delete_comment"}) =>
          /\ (/\ request'.view \in {"edit_post", "delete_post"}
              /\ request'.post_id \in DOMAIN posts
              /\ request'.user \in USERS
              /\ request'.user # posts[request'.post_id].author) =>
                /\ response' = redirect(<<"post_detail", request'.post_id>>)
                /\ store' = store
          /\ (/\ request'.view \in {"edit_comment", "delete_comment"}
              /\ request'.comment_id \in DOMAIN comments
              /\ request'.user \in USERS
              /\ request'.user # comments[request'.comment_id].author) =>
                /\ response' = redirect(
                      <<"post_detail", comments[request'.comment_id].post>>)
                /\ store' = store
          /\ store' # store => request'.user = target_author(request')
      ]_vars

C6_Witness ==
    /\ request.view = "edit_comment"
    /\ request.method = "POST"
    /\ request.user \in USERS
    /\ request.comment_id \in DOMAIN comments
    /\ request.user # comments[request.comment_id].author
    /\ request.post_id # comments[request.comment_id].post
    /\ response = redirect(<<"post_detail", comments[request.comment_id].post>>)

\* C7: the category feed of a slug that matches no category, or a hidden
\* one, is NotFound for every viewer; a served category feed holds only
\* posts of that category that pass the listings' visibility predicate.
C7_CategoryFeed ==
    request.view = "category_posts" =>
        /\ ~(/\ request.slug \in DOMAIN categories
             /\ categories[request.slug].is_published) =>
              response.status = "NotFound"
        /\ response.status = "OK" =>
              \A p \in Range(response.object_list) :
                  /\ posts[p].category = request.slug
                  /\ visible_in_category(p, now)
                  /\ visible_or_uncategorised(p, now)

C7_Witness ==
    /\ request.view = "category_posts"
    /\ response.status = "NotFound"
    /\ request.slug \in DOMAIN categories
    /\ \E p \in DOMAIN posts :
          /\ posts[p].category = request.slug
          /\ posts[p].author = request.user

\* C8: a post's deletion by its author removes the post and its comments
\* and leaves the comments of every other post as they were; a deleted id
\* stays NotFound for further delete requests; and the comment_count shown
\* with a post is the number of Comment rows that reference it.
comments_of(cs, post_id) == {c \in DOMAIN cs : cs[c].post = post_id}

C8_DeletePost ==
    [][/\ (/\ idle
           /\ request'.view = "delete_post"
           /\ response' = redirect(<<"index">>)) =>
             /\ request'.post_id \in DOMAIN posts
             /\ request'.post_id \notin DOMAIN posts'
             /\ comments_of(comments', request'.post_id) = {}
             /\ \A q \in DOMAIN posts \ {request'.post_id} :
                   /\ q \in DOMAIN posts'
                   /\ comments_of(comments', q) = comments_of(comments, q)
                   /\ \A c \in comments_of(comments, q) :
                         comments'[c] = comments[c]
       /\ (/\ idle
           /\ request'.view = "delete_post"
           /\ request'.post_id \notin DOMAIN posts) =>
             /\ response' = Http404
             /\ store' = store
       /\ \A q \in 1..(next_post_id - 1) :
             q \notin DOMAIN posts => q \notin DOMAIN posts'
       /\ \A c \in DOMAIN comments' : comments'[c].post \in DOMAIN posts'
       /\ \A q \in DOMAIN response'.comment_count :
             response'.comment_count[q] =
                Cardinality(comments_of(comments', q))
      ]_vars

C8_Witness ==
    /\ request.view = "delete_post"
    /\ response = redirect(<<"index">>)
    /\ comments # <<>>
    /\ Cardinality(DOMAIN comments) < next_comment_id - 1
    /\ request.post_id \notin DOMAIN posts

\* C9: a valid comment from an authenticated user on an existing post adds
\* exactly one Comment with that author and post and changes no other; on a
\* post id that does not exist it is NotFound and adds nothing; and the
\* detail page lists a post's comments in the order they were created.
detail_in_creation_order ==
    (request.view = "post_detail" /\ response.status = "OK") =>
        /\ Range(response.comments) = post_comments(request.post_id)
        /\ \A i, j \in DOMAIN response.comments :
              i < j =>
                 /\ response.comments[i] < response.comments[j]
                 /\ comments[response.comments[i]].created_at
                       < comments[response.comments[j]].created_at

C9_AddComment ==
    [][/\ (/\ idle
           /\ request'.view = "add_comment"
           /\ request'.user \in USERS) =>
             IF request'.post_id \in DOMAIN posts
             THEN /\ response'.status = "Redirect"
                  /\ \E c \in DOMAIN comments' \ DOMAIN comments :
                        /\ DOMAIN comments' = DOMAIN comments \cup {c}
                        /\ comments'[c].author = request'.user
                        /\ comments'[c].post = request'.post_id
                        /\ \A d \in DOMAIN comments :
                              /\ c > d
                              /\ comments'[d] = comments[d]
                  /\ posts' = posts
             ELSE /\ response' = Http404
                  /\ store' = store
       /\ detail_in_creation_order'
      ]_vars

C9_Witness ==
    /\ request.view = "post_detail"
    /\ response.status = "OK"
    /\ Len(response.comments) >= 2
    /\ request.user # posts[request.post_id].author

\* C10: the author's successful edit or deletion of a comment redirects to
\* the detail page of the comment's parent post, whatever post id the route
\* carries.
C10_SuccessUrl ==
    [][(/\ idle
        /\ request'.view \in {"edit_comment", "delete_comment"}
        /\ request'.method = "POST"
        /\ request'.comment_id \in DOMAIN comments
        /\ request'.user = comments[request'.comment_id].author)
       => response' =
             redirect(<<"post_detail", comments[request'.comment_id].post>>)
      ]_vars
====
